---- MODULE Spec2Model ----
(***************************************************************************)
(* Model of the jobs router (routes/jobs.js): five routes over a job       *)
(* store, each request passing through the route's middleware chain, its   *)
(* handler and, on next(error), the application's error responder.         *)
(*                                                                         *)
(* Node runs every handler on one thread and each handler awaits exactly   *)
(* one repository operation (one implicit store transaction), so any       *)
(* concurrent execution equals the serial one ordered by the repository    *)
(* operations.  The model therefore handles one request at a time and      *)
(* steps it through its positions.                                         *)
(***************************************************************************)
EXTENDS Integers, Sequences, FiniteSets, TLC

VARIABLES
    jobs,       \* the jobs table: id -> row
    nextId,     \* the store's serial for jobs.id
    req,        \* the request being handled
    pc,         \* its position: idle, received, authorized, error, responded, unhandled
    err,        \* the error given to next(error), NoError otherwise
    resp,       \* the response sent for req, NoResp before
    sent,       \* how many responses were sent for req
    calls,      \* repository operations invoked for req, in order
    vlog,       \* instances given to jsonschema.validate for req, in order
    jobs0,      \* the jobs table when req was received
    deleted     \* ids whose DELETE was answered 200 by an earlier request

vars == <<jobs, nextId, req, pc, err, resp, sent, calls, vlog, jobs0, deleted>>

(***************************************************************************)
(* Bounds.                                                                 *)
(***************************************************************************)
\* ids the store's serial may hand out: POST is accepted while nextId <= MaxId
MaxId == 2

(***************************************************************************)
(* JSON values.  Every value is a record of the same shape so that values  *)
(* of different JavaScript types can be compared: t is the type, s the     *)
(* characters of a string, n the number (or 0/1 for a boolean).  Strings   *)
(* are sequences of one-character strings.                                 *)
(***************************************************************************)
JStr(cs) == [t |-> "string", s |-> cs, n |-> 0]
JNum(k) == [t |-> "number", s |-> <<>>, n |-> k]
JNaN == [t |-> "NaN", s |-> <<>>, n |-> 0]
JBool(b) == [t |-> "boolean", s |-> <<>>, n |-> IF b THEN 1 ELSE 0]
JUndefined == [t |-> "undefined", s |-> <<>>, n |-> 0]

TrueText == <<"t", "r", "u", "e">>

Digits == {"0", "1", "2", "3", "4", "5", "6", "7", "8", "9"}

DigitVal(c) ==
    CASE c = "0" -> 0 [] c = "1" -> 1 [] c = "2" -> 2 [] c = "3" -> 3
      [] c = "4" -> 4 [] c = "5" -> 5 [] c = "6" -> 6 [] c = "7" -> 7
      [] c = "8" -> 8 [] c = "9" -> 9

AllDigits(cs) == \A i \in 1..Len(cs) : cs[i] \in Digits

RECURSIVE DecVal(_)
DecVal(cs) ==
    IF cs = <<>> THEN 0
    ELSE DecVal(SubSeq(cs, 1, Len(cs) - 1)) * 10 + DigitVal(cs[Len(cs)])

\* JavaScript's unary plus on a string: the empty string is 0, an optionally
\* signed run of decimal digits is its value, anything else is NaN.  (The
\* strings the model draws hold no whitespace, fraction, exponent or radix
\* prefix, the other forms unary plus accepts.)
ToNumber(cs) ==
    IF cs = <<>> THEN JNum(0)
    ELSE IF AllDigits(cs) THEN JNum(DecVal(cs))
    ELSE IF Len(cs) > 1 /\ Head(cs) = "-" /\ AllDigits(Tail(cs))
         THEN JNum(0 - DecVal(Tail(cs)))
    ELSE IF Len(cs) > 1 /\ Head(cs) = "+" /\ AllDigits(Tail(cs))
         THEN JNum(DecVal(Tail(cs)))
    ELSE JNaN

\* An object is a function from its keys to JSON values.
EmptyObject == [k \in {} |-> JNaN]

(***************************************************************************)
(* Errors and the error responder.                                         *)
(***************************************************************************)
NoError == [name |-> "none", status |-> 0, message |-> <<>>]
NoResp == [status |-> 0, body |-> EmptyObject]

\* new BadRequestError(errors): status 400, message the list of violations
BadRequestError(errors) ==
    [name |-> "BadRequestError", status |-> 400, message |-> errors]
UnauthorizedError ==
    [name |-> "UnauthorizedError", status |-> 401, message |-> <<"Unauthorized">>]
NotFoundError(what) ==
    [name |-> "NotFoundError", status |-> 404, message |-> <<what>>]
\* a native error carries no status
ReferenceError(what) ==
    [name |-> "ReferenceError", status |-> 0, message |-> <<what>>]

\* the application's error handler: status = err.status || 500,
\* body {error: {message, status}}
ErrorStatus(e) == IF e.status = 0 THEN 500 ELSE e.status
ErrorResponse(e) ==
    [status |-> ErrorStatus(e),
     body |-> [error |-> [message |-> e.message, status |-> ErrorStatus(e)]]]

(***************************************************************************)
(* Schemas and jsonschema.validate.                                        *)
(***************************************************************************)
\* the order in which violations are listed
KeyOrder == <<"title", "salary", "equity", "companyHandle", "handle",
              "minSalary", "hasEquity", "nothing">>

jobNewSchema ==
    [name |-> "jobNew",
     props |-> [title |-> "string", salary |-> "integer", equity |-> "string",
                companyHandle |-> "string"],
     required |-> {"title", "salary", "equity", "companyHandle"},
     additional |-> FALSE]

jobUpdateSchema ==
    [name |-> "jobUpdate",
     props |-> [title |-> "string", salary |-> "integer", equity |-> "string"],
     required |-> {},
     additional |-> FALSE]

jobSearchSchema ==
    [name |-> "jobSearch",
     props |-> [minSalary |-> "integer", hasEquity |-> "boolean",
                title |-> "string"],
     required |-> {},
     additional |-> FALSE]

\* integer: a finite number (NaN is not one) that is at least the minimum 0
HasType(v, type) ==
    CASE type = "string" -> v.t = "string"
      [] type = "boolean" -> v.t = "boolean"
      [] type = "integer" -> v.t = "number" /\ v.n >= 0

Violation(instance, schema, k) ==
    IF k \in DOMAIN instance
    THEN IF k \in DOMAIN schema.props
         THEN IF HasType(instance[k], schema.props[k]) THEN <<>>
              ELSE << <<"instance", k, "is not of a type(s)", schema.props[k]>> >>
         ELSE IF schema.additional THEN <<>>
              ELSE << <<"instance", k, "is not allowed to have the additional property">> >>
    ELSE IF k \in schema.required
         THEN << <<"instance", k, "requires property">> >>
         ELSE <<>>

RECURSIVE ViolationsFrom(_, _, _)
ViolationsFrom(instance, schema, i) ==
    IF i > Len(KeyOrder) THEN <<>>
    ELSE Violation(instance, schema, KeyOrder[i])
         \o ViolationsFrom(instance, schema, i + 1)

\* validator.errors.map(e => e.stack): every violation, not only the first
Violations(instance, schema) == ViolationsFrom(instance, schema, 1)

\* ValidatorResult: valid is a getter, true iff errors is empty.  The result
\* has no property named validate, so reading it yields undefined.
Validate(instance, schema) ==
    [valid |-> JBool(Violations(instance, schema) = <<>>),
     errors |-> Violations(instance, schema),
     validate |-> JUndefined]

\* JavaScript truthiness, as the ! operator sees a value
Truthy(v) ==
    CASE v.t = "boolean" -> v.n = 1
      [] v.t = "number" -> v.n # 0
      [] v.t = "string" -> v.s # <<>>
      [] OTHER -> FALSE

(***************************************************************************)
(* The job repository (models/job.js) over the jobs table.  Each operation *)
(* yields [ok, err, row, jobs, nextId]: the row or the error it throws,    *)
(* and the table and serial it leaves.                                     *)
(***************************************************************************)
\* the companies table, read-only here
Companies == {<<"c", "1">>}
CompanyRow(h) == [handle |-> JStr(h), name |-> JStr(<<"C", "1">>)]

\* the row a path id selects: the id parameter is bound to an integer column
Selects(id, js) == ToNumber(id).t = "number" /\ ToNumber(id).n \in DOMAIN js

Job_create(data, js, nid) ==
    IF data.companyHandle.s \notin Companies
    THEN [ok |-> FALSE, err |-> NotFoundError("company"), row |-> EmptyObject,
          jobs |-> js, nextId |-> nid]
    ELSE LET row == [id |-> JNum(nid), title |-> data.title,
                     salary |-> data.salary, equity |-> data.equity,
                     companyHandle |-> data.companyHandle]
         IN [ok |-> TRUE, err |-> NoError, row |-> row,
             jobs |-> [i \in DOMAIN js \cup {nid} |->
                          IF i = nid THEN row ELSE js[i]],
             nextId |-> nid + 1]

\* equity > 0 on a decimal string: it holds a digit other than 0
EquityPositive(e) ==
    e.t = "string" /\ \E i \in 1..Len(e.s) : e.s[i] \in Digits \ {"0"}

\* title ILIKE %t%: t occurs in the title
Contains(cs, t) ==
    \E i \in 0..(Len(cs) - Len(t)) : SubSeq(cs, i + 1, i + Len(t)) = t

\* the matching rows (their order by title is not modelled)
Job_findAll(q, js) ==
    [ok |-> TRUE, err |-> NoError,
     row |-> { js[i] : i \in
                 { j \in DOMAIN js :
                     /\ "minSalary" \in DOMAIN q => js[j].salary.n >= q.minSalary.n
                     /\ ("hasEquity" \in DOMAIN q /\ Truthy(q.hasEquity))
                            => EquityPositive(js[j].equity)
                     /\ "title" \in DOMAIN q => Contains(js[j].title.s, q.title.s) } },
     jobs |-> js]

Job_get(id, js) ==
    IF Selects(id, js)
    THEN LET j == js[ToNumber(id).n]
         IN [ok |-> TRUE, err |-> NoError,
             row |-> [id |-> j.id, title |-> j.title, salary |-> j.salary,
                      equity |-> j.equity,
                      company |-> CompanyRow(j.companyHandle.s)],
             jobs |-> js]
    ELSE [ok |-> FALSE, err |-> NotFoundError("job"), row |-> EmptyObject,
          jobs |-> js]

Job_remove(id, js) ==
    IF Selects(id, js)
    THEN [ok |-> TRUE, err |-> NoError, row |-> EmptyObject,
          jobs |-> [i \in DOMAIN js \ {ToNumber(id).n} |-> js[i]]]
    ELSE [ok |-> FALSE, err |-> NotFoundError("job"), row |-> EmptyObject,
          jobs |-> js]

\* one entry of calls
Call(op, id, data) == [op |-> op, id |-> id, data |-> data]
\* one entry of vlog
Validated(instance, schema) == [schema |-> schema.name, instance |-> instance]

(***************************************************************************)
(* Authorization (middleware/auth.js).                                     *)
(***************************************************************************)
Callers == {"anon", "user", "admin"}
IsAdmin(r) == r.caller = "admin"

(***************************************************************************)
(* The handlers.  Each yields what the handler did with the request:       *)
(*   kind "res"    it sent resp itself (res.json);                         *)
(*   kind "next"   it forwarded err through next(error);                   *)
(*   kind "reject" it did neither: its promise rejected with err.          *)
(***************************************************************************)
Sent(status, body, cs, vs, js, nid) ==
    [kind |-> "res", resp |-> [status |-> status, body |-> body],
     err |-> NoError, calls |-> cs, vlog |-> vs, jobs |-> js, nextId |-> nid]
Forwarded(e, cs, vs, js, nid) ==
    [kind |-> "next", resp |-> NoResp, err |-> e, calls |-> cs, vlog |-> vs,
     jobs |-> js, nextId |-> nid]
Rejected(e, cs, vs, js, nid) ==
    [kind |-> "reject", resp |-> NoResp, err |-> e, calls |-> cs, vlog |-> vs,
     jobs |-> js, nextId |-> nid]

\* Middleware with DELETE registered without ensureAdmin
Middleware_DeleteOpen(route) ==
    CASE route = "POST /" -> <<"ensureAdmin">>
      [] route = "PATCH /:id" -> <<"ensureAdmin">>
      [] OTHER -> <<>>

\* the middleware registered before each route's handler
Middleware(route) ==
    CASE route = "POST /" -> <<"ensureAdmin">>
      [] route = "PATCH /:id" -> <<"ensureAdmin">>
      [] route = "DELETE /:id" -> <<"ensureAdmin">>
      [] OTHER -> <<>>

\* PostHandler answering through res.json alone, without status(201)
PostHandler_Status200(r, js, nid) ==
    LET validator == Validate(r.body, jobNewSchema)
        vs == <<Validated(r.body, jobNewSchema)>>
    IN IF ~Truthy(validator.valid)
       THEN Forwarded(BadRequestError(validator.errors), <<>>, vs, js, nid)
       ELSE LET c == Job_create(r.body, js, nid)
                cs == <<Call("create", <<>>, r.body)>>
            IN IF c.ok
               THEN Sent(200, [job |-> c.row], cs, vs, c.jobs, c.nextId)
               ELSE Forwarded(c.err, cs, vs, c.jobs, c.nextId)

\* router.post("/")
PostHandler(r, js, nid) ==
    LET validator == Validate(r.body, jobNewSchema)
        vs == <<Validated(r.body, jobNewSchema)>>
    IN IF ~Truthy(validator.valid)
       THEN Forwarded(BadRequestError(validator.errors), <<>>, vs, js, nid)
       ELSE LET c == Job_create(r.body, js, nid)
                cs == <<Call("create", <<>>, r.body)>>
            IN IF c.ok
               THEN Sent(201, [job |-> c.row], cs, vs, c.jobs, c.nextId)
               ELSE Forwarded(c.err, cs, vs, c.jobs, c.nextId)

\* CoerceQuery with hasEquity taken by truthiness instead of === "true"
CoerceQuery_Truthy(query) ==
    [k \in DOMAIN query \cup {"hasEquity"} |->
        IF k = "minSalary" THEN ToNumber(query[k])
        ELSE IF k = "hasEquity"
             THEN JBool("hasEquity" \in DOMAIN query /\ query[k] # <<>>)
        ELSE JStr(query[k])]

\* q.minSalary = +q.minSalary when supplied; q.hasEquity = q.hasEquity === "true"
CoerceQuery(query) ==
    [k \in DOMAIN query \cup {"hasEquity"} |->
        IF k = "minSalary" THEN ToNumber(query[k])
        ELSE IF k = "hasEquity"
             THEN JBool("hasEquity" \in DOMAIN query /\ query[k] = TrueText)
        ELSE JStr(query[k])]

\* ListHandler without the validity check
ListHandler_NoCheck(r, js, nid) ==
    LET q == CoerceQuery(r.query)
        vs == <<Validated(q, jobSearchSchema)>>
        f == Job_findAll(q, js)
    IN Sent(200, [jobs |-> f.row], <<Call("findAll", <<>>, q)>>, vs, f.jobs, nid)

\* router.get("/")
ListHandler(r, js, nid) ==
    LET q == CoerceQuery(r.query)
        validator == Validate(q, jobSearchSchema)
        vs == <<Validated(q, jobSearchSchema)>>
    IN IF ~Truthy(validator.validate)
       THEN Forwarded(BadRequestError(validator.errors), <<>>, vs, js, nid)
       ELSE LET f == Job_findAll(q, js)
            IN Sent(200, [jobs |-> f.row], <<Call("findAll", <<>>, q)>>, vs,
                    f.jobs, nid)

\* GetHandler answering whatever Job.get did, its error dropped
GetHandler_ErrorDropped(r, js, nid) ==
    LET g == Job_get(r.id, js)
    IN Sent(200, [job |-> g.row], <<Call("get", r.id, EmptyObject)>>, <<>>,
            g.jobs, nid)

\* router.get("/:id")
GetHandler(r, js, nid) ==
    LET g == Job_get(r.id, js)
        cs == <<Call("get", r.id, EmptyObject)>>
    IN IF g.ok
       THEN Sent(200, [job |-> g.row], cs, <<>>, g.jobs, nid)
       ELSE Forwarded(g.err, cs, <<>>, g.jobs, nid)

\* router.patch("/:id"): the handler is declared with no parameters, so req
\* in its first statement is an unbound name; the ReferenceError is caught
\* and the catch block's next(error) is an unbound name too: the async
\* function's promise rejects before anything was validated, called or sent.
PatchHandler(r, js, nid) ==
    Rejected(ReferenceError("next is not defined"), <<>>, <<>>, js, nid)

\* DeleteHandler with Job.remove not awaited: its rejection is never seen
DeleteHandler_NoAwait(r, js, nid) ==
    LET d == Job_remove(r.id, js)
    IN Sent(200, [deleted |-> ToNumber(r.id)],
            <<Call("remove", r.id, EmptyObject)>>, <<>>, d.jobs, nid)

\* router.delete("/:id")
DeleteHandler(r, js, nid) ==
    LET d == Job_remove(r.id, js)
        cs == <<Call("remove", r.id, EmptyObject)>>
    IN IF d.ok
       THEN Sent(200, [deleted |-> ToNumber(r.id)], cs, <<>>, d.jobs, nid)
       ELSE Forwarded(d.err, cs, <<>>, d.jobs, nid)

(***************************************************************************)
(* Requests.                                                               *)
(***************************************************************************)
\* the objects whose keys are some of opts' keys, each with one of its values
Objects(opts) ==
    UNION { { f \in [K -> UNION { opts[k] : k \in K }] :
                \A k \in K : f[k] \in opts[k] } : K \in SUBSET DOMAIN opts }

PostBodies ==
    Objects([title |-> {JStr(<<"J">>), JStr(<<"K">>), JNum(5)},
             salary |-> {JNum(10), JStr(<<"t", "e", "n">>)},
             equity |-> {JStr(<<"0", ".", "2">>), JNum(1)},
             companyHandle |-> {JStr(<<"c", "1">>), JStr(<<"z">>)}])

PatchBodies ==
    Objects([title |-> {JStr(<<"N">>), JNum(5)},
             salary |-> {JNum(7), JStr(<<"t", "e", "n">>)},
             equity |-> {JStr(<<"0", ".", "5">>)},
             handle |-> {JStr(<<"N">>)},
             companyHandle |-> {JStr(<<"c", "1">>)}])

\* query strings as the query parser leaves them: every value a string
Queries ==
    Objects([minSalary |-> {<<"2">>, <<>>, <<"a">>, <<"-", "1">>},
             hasEquity |-> {TrueText, <<"1">>, <<>>},
             title |-> {<<"3">>},
             nothing |-> {<<"n">>}])

DigitChar(k) ==
    CASE k = 0 -> "0" [] k = 1 -> "1" [] k = 2 -> "2" [] k = 3 -> "3"
      [] k = 4 -> "4" [] k = 5 -> "5" [] k = 6 -> "6" [] k = 7 -> "7"
      [] k = 8 -> "8" [] k = 9 -> "9"

\* path parameters: 0 (never assigned), every id the serial can hand out, an
\* id with a leading zero and one that is no number
PathIds == { <<DigitChar(k)>> : k \in 0..MaxId } \cup {<<"0", "1">>, <<"a">>}

Request(route, caller, id, body, query) ==
    [route |-> route, caller |-> caller, id |-> id, body |-> body,
     query |-> query]

NoReq == Request("none", "anon", <<>>, EmptyObject, EmptyObject)

Requests ==
    { Request("POST /", c, <<>>, b, EmptyObject) :
          c \in Callers, b \in PostBodies }
    \cup { Request("GET /", c, <<>>, EmptyObject, q) :
          c \in Callers, q \in Queries }
    \cup { Request("GET /:id", c, i, EmptyObject, EmptyObject) :
          c \in Callers, i \in PathIds }
    \cup { Request("PATCH /:id", c, i, b, EmptyObject) :
          c \in Callers, i \in PathIds, b \in PatchBodies }
    \cup { Request("DELETE /:id", c, i, EmptyObject, EmptyObject) :
          c \in Callers, i \in PathIds }

(***************************************************************************)
(* Actions.                                                                *)
(***************************************************************************)
Init ==
    /\ jobs = <<>>
    /\ nextId = 1
    /\ req = NoReq
    /\ pc = "idle"
    /\ err = NoError
    /\ resp = NoResp
    /\ sent = 0
    /\ calls = <<>>
    /\ vlog = <<>>
    /\ jobs0 = <<>>
    /\ deleted = {}

\* a request arrives and is routed
Receive(r) ==
    /\ pc = "idle"
    /\ r.route = "POST /" => nextId <= MaxId
    /\ req' = r
    /\ pc' = "received"
    /\ jobs0' = jobs
    /\ UNCHANGED <<jobs, nextId, err, resp, sent, calls, vlog, deleted>>

\* ensureAdmin: pass the request on when the caller is an admin, otherwise
\* forward UnauthorizedError
EnsureAdmin ==
    /\ pc = "received"
    /\ Middleware(req.route) # <<>>
    /\ IF IsAdmin(req)
       THEN pc' = "authorized" /\ err' = err
       ELSE pc' = "error" /\ err' = UnauthorizedError
    /\ UNCHANGED <<jobs, nextId, req, resp, sent, calls, vlog, jobs0, deleted>>

\* the request has passed the route's middleware
HandlerReady ==
    pc = IF Middleware(req.route) = <<>> THEN "received" ELSE "authorized"

\* what a handler's outcome does to the request.  A rejected handler promise
\* is either dropped by the router (no response is ever sent) or, with a
\* router that observes the promise, forwarded to the error responder.
Complete(o) ==
    /\ jobs' = o.jobs
    /\ nextId' = o.nextId
    /\ calls' = calls \o o.calls
    /\ vlog' = vlog \o o.vlog
    /\ CASE o.kind = "res" ->
              resp' = o.resp /\ sent' = sent + 1 /\ pc' = "responded"
              /\ err' = err
         [] o.kind = "next" ->
              err' = o.err /\ pc' = "error" /\ UNCHANGED <<resp, sent>>
         [] o.kind = "reject" ->
              /\ err' = o.err
              /\ pc' \in {"unhandled", "error"}
              /\ UNCHANGED <<resp, sent>>
    /\ UNCHANGED <<req, jobs0, deleted>>

PostJob ==
    /\ HandlerReady
    /\ req.route = "POST /"
    /\ Complete(PostHandler(req, jobs, nextId))

ListJobs ==
    /\ HandlerReady
    /\ req.route = "GET /"
    /\ Complete(ListHandler(req, jobs, nextId))

GetJob ==
    /\ HandlerReady
    /\ req.route = "GET /:id"
    /\ Complete(GetHandler(req, jobs, nextId))

PatchJob ==
    /\ HandlerReady
    /\ req.route = "PATCH /:id"
    /\ Complete(PatchHandler(req, jobs, nextId))

DeleteJob ==
    /\ HandlerReady
    /\ req.route = "DELETE /:id"
    /\ Complete(DeleteHandler(req, jobs, nextId))

\* the application's error handler answers for the forwarded error
ErrorResponder ==
    /\ pc = "error"
    /\ resp' = ErrorResponse(err)
    /\ sent' = sent + 1
    /\ pc' = "responded"
    /\ UNCHANGED <<jobs, nextId, req, err, calls, vlog, jobs0, deleted>>

\* the exchange is over: the response went out, or the client gave up on a
\* request nothing answers
Finish ==
    /\ pc \in {"responded", "unhandled"}
    /\ deleted' = IF pc = "responded" /\ req.route = "DELETE /:id"
                     /\ resp.status = 200
                  THEN deleted \cup {resp.body.deleted.n}
                  ELSE deleted
    /\ pc' = "idle"
    /\ req' = NoReq
    /\ err' = NoError
    /\ resp' = NoResp
    /\ sent' = 0
    /\ calls' = <<>>
    /\ vlog' = <<>>
    /\ jobs0' = jobs
    /\ UNCHANGED <<jobs, nextId>>

Next ==
    \/ \E r \in Requests : Receive(r)
    \/ EnsureAdmin
    \/ PostJob
    \/ ListJobs
    \/ GetJob
    \/ PatchJob
    \/ DeleteJob
    \/ ErrorResponder
    \/ Finish

Spec == Init /\ [][Next]_vars

(***************************************************************************)
(* Properties.                                                             *)
(***************************************************************************)
Responded == pc = "responded"
\* the handler has run to its end, with or without a response
HandlerFinished == pc \in {"responded", "unhandled"}
NotAdmin == req.caller \in {"anon", "user"}
Mutating == req.route \in {"POST /", "PATCH /:id", "DELETE /:id"}
\* the table js without row k
Without(js, k) == [i \in DOMAIN js \ {k} |-> js[i]]

\* C1: a mutating request (POST, PATCH, DELETE) from a caller that is not an
\* admin never reaches its handler, invokes no repository operation and
\* leaves the jobs table as it was, and its one response is 401, whatever
\* the body and whether or not the id exists.
C1_AdminOnlyWrites ==
    (Mutating /\ NotAdmin) =>
        /\ calls = <<>>
        /\ jobs = jobs0
        /\ pc \notin {"authorized", "unhandled"}
        /\ Responded => (resp.status = 401 /\ sent = 1)

C1_Witness ==
    /\ Responded
    /\ req.route = "DELETE /:id"
    /\ req.caller = "user"
    /\ Selects(req.id, jobs)
    /\ resp.status = 401

\* C2 (as claimed): GET /jobs whose coerced query satisfies the search
\* schema calls findAll exactly once with the coerced query and is answered
\* 200 with {jobs}; a 400 comes only with a schema violation.
C2_ListValidQuery ==
    (Responded /\ req.route = "GET /"
       /\ Violations(CoerceQuery(req.query), jobSearchSchema) = <<>>) =>
        /\ resp.status = 200
        /\ calls = <<Call("findAll", <<>>, CoerceQuery(req.query))>>
        /\ DOMAIN resp.body = {"jobs"}

\* C3 (as claimed): an admin PATCH whose body satisfies the update schema
\* calls update exactly once with the path id and the body and is answered
\* 200 when the id exists and 404 when it does not.
C3_PatchValidBody ==
    (HandlerFinished /\ req.route = "PATCH /:id" /\ IsAdmin(req)
       /\ Violations(req.body, jobUpdateSchema) = <<>>) =>
        /\ Responded
        /\ calls = <<Call("update", req.id, req.body)>>
        /\ resp.status = IF Selects(req.id, jobs0) THEN 200 ELSE 404

\* C4 (as claimed): an admin PATCH whose body violates the update schema is
\* answered 400 whether or not the id exists, update is not invoked and the
\* jobs table is unchanged.
C4_PatchInvalidBody ==
    (HandlerFinished /\ req.route = "PATCH /:id" /\ IsAdmin(req)
       /\ Violations(req.body, jobUpdateSchema) # <<>>) =>
        /\ Responded
        /\ resp.status = 400
        /\ calls = <<>>
        /\ jobs = jobs0

\* C5: an admin DELETE calls remove once and is answered 200 with
\* {deleted: +id} exactly when a job with that id was stored, and that job
\* is then gone; otherwise it is answered 404 and nothing changes.  An id
\* once deleted is never stored again, so a later DELETE of it, like a
\* DELETE of an id never assigned, is answered 404.
C5_DeleteOnce ==
    /\ \A k \in deleted : k \notin DOMAIN jobs
    /\ (Responded /\ req.route = "DELETE /:id" /\ IsAdmin(req)) =>
         LET n == ToNumber(req.id)
         IN /\ calls = <<Call("remove", req.id, EmptyObject)>>
            /\ sent = 1
            /\ (resp.status = 200) <=> Selects(req.id, jobs0)
            /\ resp.status = 200 =>
                 /\ resp.body = [deleted |-> n]
                 /\ n.n \notin DOMAIN jobs
                 /\ jobs = Without(jobs0, n.n)
            /\ resp.status # 200 => (resp.status = 404 /\ jobs = jobs0)
            /\ (n.t = "number" /\ n.n \in deleted) => resp.status = 404
            /\ (n.t # "number" \/ n.n \notin 1..(nextId - 1)) => resp.status = 404

C5_Witness ==
    /\ Responded
    /\ req.route = "DELETE /:id"
    /\ IsAdmin(req)
    /\ ToNumber(req.id).n \in deleted
    /\ resp.status = 404

\* the job row POST's body asks for, under the id k
RowOf(body, k) ==
    [id |-> JNum(k), title |-> body.title, salary |-> body.salary,
     equity |-> body.equity, companyHandle |-> body.companyHandle]

\* C6 (as claimed): an admin POST whose body satisfies the creation schema
\* calls create exactly once with the body and is answered 201 with the new
\* job.
C6_PostValidBody ==
    (Responded /\ req.route = "POST /" /\ IsAdmin(req)
       /\ Violations(req.body, jobNewSchema) = <<>>) =>
        /\ calls = <<Call("create", <<>>, req.body)>>
        /\ resp.status = 201

\* C6 (amended): an admin POST whose body satisfies the creation schema
\* calls create exactly once with the body.  When companyHandle names an
\* existing company the answer is 201 with {job}: the id is an integer the
\* store never used before, the other fields are the submitted values
\* (equity the submitted string) and the row is stored.  When it names no
\* company, create fails: the answer is an error and no job is stored.
C6_PostCreates ==
    (Responded /\ req.route = "POST /" /\ IsAdmin(req)
       /\ Violations(req.body, jobNewSchema) = <<>>) =>
        /\ calls = <<Call("create", <<>>, req.body)>>
        /\ sent = 1
        /\ IF req.body.companyHandle.s \in Companies
           THEN /\ resp.status = 201
                /\ DOMAIN resp.body = {"job"}
                /\ resp.body.job.id.t = "number"
                /\ resp.body.job.id.n \notin DOMAIN jobs0 \cup deleted
                /\ resp.body.job = RowOf(req.body, resp.body.job.id.n)
                /\ resp.body.job.equity.t = "string"
                /\ DOMAIN jobs = DOMAIN jobs0 \cup {resp.body.job.id.n}
                /\ jobs[resp.body.job.id.n] = resp.body.job
                /\ \A k \in DOMAIN jobs0 : jobs[k] = jobs0[k]
           ELSE /\ resp.status >= 400
                /\ jobs = jobs0

C6_Witness ==
    /\ Responded
    /\ req.route = "POST /"
    /\ IsAdmin(req)
    /\ resp.status = 201
    /\ resp.body.job.id.n = 2
    /\ deleted = {1}

\* C7: an admin POST whose body violates the creation schema, and a GET
\* /jobs whose coerced query violates the search schema, is answered 400
\* with the list of all the violations; the repository is not invoked.
C7_SchemaViolations ==
    LET bad == IF req.route = "POST /" /\ IsAdmin(req)
               THEN Violations(req.body, jobNewSchema)
               ELSE IF req.route = "GET /"
               THEN Violations(CoerceQuery(req.query), jobSearchSchema)
               ELSE <<>>
    IN bad # <<>> =>
        /\ calls = <<>>
        /\ jobs = jobs0
        /\ pc # "unhandled"
        /\ Responded =>
             /\ resp.status = 400
             /\ sent = 1
             /\ resp.body.error.message = bad

C7_Witness ==
    /\ Responded
    /\ req.route = "GET /"
    /\ "nothing" \in DOMAIN req.query
    /\ "minSalary" \in DOMAIN req.query
    /\ req.query.minSalary = <<"a">>
    /\ resp.status = 400
    /\ Len(resp.body.error.message) = 2

\* C8: GET /jobs/:id passes no middleware and validates nothing; for any
\* caller it calls get once with the path id and is answered 200 with the
\* job when a job has that id and 404 when none has; the jobs table is
\* never changed.
C8_GetById ==
    req.route = "GET /:id" =>
        /\ jobs = jobs0
        /\ vlog = <<>>
        /\ pc \notin {"authorized", "unhandled"}
        /\ Responded =>
             /\ calls = <<Call("get", req.id, EmptyObject)>>
             /\ sent = 1
             /\ IF Selects(req.id, jobs0)
                THEN /\ resp.status = 200
                     /\ DOMAIN resp.body = {"job"}
                     /\ resp.body.job.id = JNum(ToNumber(req.id).n)
                     /\ resp.body.job.title = jobs0[ToNumber(req.id).n].title
                     /\ resp.body.job.company.handle
                            = jobs0[ToNumber(req.id).n].companyHandle
                ELSE resp.status = 404

C8_Witness ==
    /\ Responded
    /\ req.route = "GET /:id"
    /\ req.caller = "anon"
    /\ req.id = <<"0", "1">>
    /\ resp.status = 200

\* C9 (as claimed): every request whose handler has run to its end was
\* answered exactly once, by the handler or by the error responder, and the
\* repository was invoked at most once for it.
C9_RespondedOnce ==
    HandlerFinished => (Responded /\ sent = 1 /\ Len(calls) <= 1)

\* C10: the object GET /jobs gives to schema validation (and to findAll)
\* has hasEquity a boolean, true exactly when the query string's value was
\* "true" and false otherwise, also when none was supplied; minSalary is
\* the number its string converts to when supplied and absent otherwise;
\* every other key keeps its string.
C10_QueryCoercion ==
    (req.route = "GET /" /\ pc \in {"error", "responded"}) =>
        /\ Len(vlog) = 1
        /\ vlog[1].schema = "jobSearch"
        /\ LET q == vlog[1].instance
               raw == req.query
           IN /\ DOMAIN q = DOMAIN raw \cup {"hasEquity"}
              /\ q.hasEquity.t = "boolean"
              /\ (q.hasEquity.n = 1) <=>
                   ("hasEquity" \in DOMAIN raw /\ raw.hasEquity = <<"t", "r", "u", "e">>)
              /\ "minSalary" \in DOMAIN raw =>
                   /\ q.minSalary.t \in {"number", "NaN"}
                   /\ raw.minSalary = <<"2">> => q.minSalary = JNum(2)
                   /\ raw.minSalary = <<>> => q.minSalary = JNum(0)
                   /\ raw.minSalary = <<"-", "1">> => q.minSalary = JNum(0 - 1)
                   /\ raw.minSalary = <<"a">> => q.minSalary = JNaN
              /\ \A k \in DOMAIN raw \ {"minSalary", "hasEquity"} :
                   q[k] = JStr(raw[k])
              /\ \A i \in 1..Len(calls) : calls[i].data = q

C10_Witness ==
    /\ Responded
    /\ req.route = "GET /"
    /\ "hasEquity" \in DOMAIN req.query
    /\ req.query.hasEquity = <<"1">>
    /\ "minSalary" \notin DOMAIN req.query
    /\ "title" \in DOMAIN req.query
    /\ vlog[1].instance.hasEquity = JBool(FALSE)

====
